---------------------------- MODULE Spec2Model ----------------------------
(***************************************************************************)
(* Model of src/main.py: the streaming anomaly detector                    *)
(* (AnomalyDetector.check) and the reconnect/backoff ingestion loop        *)
(* (ws_loop) of the SOL anomaly alert bot.                                 *)
(*                                                                         *)
(* Numbers.  Volumes, closes and thresholds are integers, and the float    *)
(* comparisons of the source are carried out exactly on them:              *)
(*   mean = sum/n, std = sqrt(n*sumsq - sum^2)/n, so                       *)
(*   z = (v - mean)/std = (n*v - sum)/sqrt(n*sumsq - sum^2).               *)
(* For integer-valued inputs of this size the float sum, mean and          *)
(* deviations of the source are exact, so std = 0 exactly when all window  *)
(* values are equal.  The thresholds tried put no comparison of the model   *)
(* on the boundary z = threshold, where float rounding would decide.       *)
(* Time.  `clock` is the value time.time() returns, in seconds.            *)
(***************************************************************************)
EXTENDS Integers, Sequences, FiniteSets, TLC

\* ----------------------------------------------------------------- bounds
\* Minute buckets of the candles fed to the detector: 1..MaxBucket.
MaxBucket == 2
\* The clock advances in steps of 60 s, at most MaxTicks times.
MaxTicks == 1
\* ws_connect fails at most MaxFails times in a row.
MaxFails == 7
\* The history of evaluated buckets counts at most MaxPushes candles per bucket.
MaxPushes == 3

\* Candle volumes and closes fed to the detector.
Volumes == {1, 9}
Closes == {10, 11}
\* The configurations tried (Settings.load reads them from the environment):
\* VOLUME_WINDOW, PRICE_WINDOW, ALERT_COOLDOWN_MIN, VOLUME_ZSCORE,
\* MINUTE_VOLUME_MIN, PRICE_PCT_CHANGE.
VolumeWindows == {5}
PriceWindows == {1}
CooldownMins == {1}
ZScores == {-1, 0, 1}
MinVolumes == {0}
PricePcts == {2}

\* ------------------------------------------------------------- constants
\* last_minute_ts = None
NoBucket == -1
\* backoff floor and ceiling of ws_loop
BackoffFloor == 1
BackoffCeil == 60

Kinds == {"volume", "price", "merged"}

VARIABLES
    s,                \* Settings (read once at start)
    volumes,          \* AnomalyDetector.volumes : deque(maxlen = volume_window)
    prices,           \* AnomalyDetector.prices  : deque(maxlen = price_window + 1)
    last_alert_ts,    \* AnomalyDetector.last_alert_ts : kind -> seconds
    last_minute_ts,   \* AnomalyDetector.last_minute_ts : bucket or NoBucket
    signals,          \* the dict returned by the latest call of check
    ev,               \* locals of the latest call of check: how it ended (op),
                      \* the raw signals, which of them the cooldown suppressed,
                      \* the window lengths before the push, and whether the
                      \* volume window was full of the candle's own volume
    clock,            \* time.time()
    pc,               \* ws_loop: position of the loop
    backoff,          \* ws_loop: backoff
    fails,            \* number of consecutive failed ws_connect attempts
    connected,        \* whether a ws_connect has succeeded so far
    pushed,           \* history: bucket -> number of candles of it evaluated
    ordered,          \* history: the buckets handed to check never decreased
    cycle             \* history of the current turn of ws_loop's while loop:
                      \* how the message loop was left (exit), and the number
                      \* of calls of fetch_latest_rest (fetches)

dvars == <<volumes, prices, last_alert_ts, last_minute_ts, signals, ev>>
lvars == <<pc, backoff, fails, connected>>
hvars == <<pushed, ordered>>
vars == <<s, volumes, prices, last_alert_ts, last_minute_ts, signals, ev,
          clock, pc, backoff, fails, connected, pushed, ordered, cycle>>

\* ------------------------------------------------------------- utilities
Max(a, b) == IF a >= b THEN a ELSE b
Min(a, b) == IF a <= b THEN a ELSE b
Abs(a) == IF a >= 0 THEN a ELSE -a

RECURSIVE SumSeq(_)
SumSeq(q) == IF q = <<>> THEN 0 ELSE Head(q) + SumSeq(Tail(q))

RECURSIVE SumSqSeq(_)
SumSqSeq(q) == IF q = <<>> THEN 0 ELSE Head(q) * Head(q) + SumSqSeq(Tail(q))

\* Mutant of the deque: no maxlen, nothing is ever dropped.
DequeAppendUnbounded(q, x, cap) == Append(q, x)

\* deque(maxlen = cap).append(x): the oldest element is dropped when full.
DequeAppend(q, x, cap) ==
    IF cap = 0 THEN <<>>
    ELSE IF Len(q) >= cap THEN Append(Tail(q), x)
    ELSE Append(q, x)

AllFalse == [volume |-> FALSE, price |-> FALSE, merged |-> FALSE]

\* ---------------------------------------------------------------- inputs
\* A Binance kline dict: x (is final), T (close time, ms), c, v.  `num` says
\* whether the strings c and v parse as floats (float() raises otherwise).
Kline(fin, b, c, v, num) ==
    [x |-> fin, T |-> b * 60000 + 59999, c |-> c, v |-> v, num |-> num]

\* well-formed final candles
FinalKlines ==
    {Kline(TRUE, b, c, v, TRUE) : b \in 1..MaxBucket, c \in Closes, v \in Volumes}
\* candles still open (x = false)
OpenKlines == {Kline(FALSE, b, 10, 1, TRUE) : b \in 1..MaxBucket}
\* final candles whose c or v is not a number
BadKlines == {Kline(TRUE, b, 10, 1, FALSE) : b \in 1..MaxBucket}


\* --------------------------------------------------------- AnomalyDetector
\* minute_bucket = close_time_ms // 60000
minute_bucket(kl) == kl.T \div 60000

\* Mutants of the de-dup test: no de-dup at all; only older buckets refused.
IsDuplicateNever(bucket, last) == FALSE
IsDuplicateOlder(bucket, last) == last > bucket

\* De-dup per minute: the candle's bucket is the one recorded last.
IsDuplicate(bucket, last) == last = bucket

\* _mean_std(vals), as exact numbers: mean = sum/den and std = sqrt(dev)/den.
\* n = 0 gives (0.0, 0.0); n = 1 gives var = 0.0.
mean_std(vals) ==
    LET n == Len(vals)
        sm == SumSeq(vals)
    IN  IF n = 0 THEN [sum |-> 0, dev |-> 0, den |-> 1]
        ELSE [sum |-> sm,
              dev |-> IF n > 1 THEN n * SumSqSeq(vals) - sm * sm ELSE 0,
              den |-> n]

\* Mutant of the z-score test: no guard for std = 0 (z taken as unbounded).
ZScoreGeNoGuard(v, ms, thr) ==
    LET num == ms.den * v - ms.sum
    IN  IF ms.dev > 0
        THEN IF thr >= 0
             THEN num >= 0 /\ num * num >= thr * thr * ms.dev
             ELSE num >= 0 \/ num * num <= thr * thr * ms.dev
        ELSE TRUE

\* z >= thr where z = (v - mean)/std if std > 0 else 0.0.
\* With num = den*v - sum: z = num/sqrt(dev), compared by squaring.
ZScoreGe(v, ms, thr) ==
    LET num == ms.den * v - ms.sum
    IN  IF ms.dev > 0
        THEN IF thr >= 0
             THEN num >= 0 /\ num * num >= thr * thr * ms.dev
             ELSE num >= 0 \/ num * num <= thr * thr * ms.dev
        ELSE 0 >= thr

\* Mutant of the warm-up of the volume signal: five samples always suffice.
MinSamplesFive(st) == 5

\* max(5, int(volume_window * 0.3))
MinSamples(st) == Max(5, (st.volume_window * 3) \div 10)

\* Mutant of the volume signal: MINUTE_VOLUME_MIN is ignored.
VolSignalNoFloor(v, vals, st) ==
    /\ Len(vals) >= MinSamples(st)
    /\ ZScoreGe(v, mean_std(vals), st.volume_zscore)

\* the raw volume signal of lines 105-109, on the window before the push
VolSignal(v, vals, st) ==
    /\ (st.minute_volume_min <= 0 \/ v >= st.minute_volume_min)
    /\ Len(vals) >= MinSamples(st)
    /\ ZScoreGe(v, mean_std(vals), st.volume_zscore)

\* baseline = prices[0] if len(prices) > 0 else close_price
Baseline(ps, c) == IF Len(ps) > 0 THEN ps[1] ELSE c

\* Mutant of the percentage test: the change is taken as a fraction, not
\* as a percentage.
PctGeFraction(c, b, thr) ==
    IF b # 0 THEN Abs(c - b) >= thr * Abs(b) ELSE 0 >= thr

\* abs(pct) >= price_pct_change, pct = (c - b)/b*100 if b != 0 else 0.0
PctGe(c, b, thr) ==
    IF b # 0 THEN Abs(c - b) * 100 >= thr * Abs(b) ELSE 0 >= thr

\* Mutant of the price signal: no warm-up of the price window.
PriceSignalNoWarmup(c, ps, st) ==
    PctGe(c, Baseline(ps, c), st.price_pct_change)

\* the raw price signal of lines 114-118, on the window before the push
PriceSignal(c, ps, st) ==
    /\ Len(ps) >= st.price_window
    /\ PctGe(c, Baseline(ps, c), st.price_pct_change)

\* cooldown = alert_cooldown_min * 60
Cooldown(st) == st.alert_cooldown_min * 60

\* a raw signal is put back to False while now - last_alert_ts[kind] < cooldown
Suppressed(sig, now, last, cd) == sig /\ now - last < cd

\* Mutants of the merge step: the flags are not cleared; one signal is enough.
MergeKeepFlags(vol, price) ==
    [volume |-> vol, price |-> price, merged |-> vol /\ price]
MergeEither(vol, price) ==
    IF vol \/ price
    THEN [volume |-> FALSE, price |-> FALSE, merged |-> TRUE]
    ELSE [volume |-> vol, price |-> price, merged |-> FALSE]

\* the merge step: both signals left => merged, and both flags cleared
Merge(vol, price) ==
    IF vol /\ price
    THEN [volume |-> FALSE, price |-> FALSE, merged |-> TRUE]
    ELSE [volume |-> vol, price |-> price, merged |-> FALSE]

\* Mutant of the timestamp update: a merged alert stamps every kind.
UpdateAlertTsAll(ts, sig, now) ==
    IF sig.merged THEN [kd \in Kinds |-> now]
    ELSE IF sig.volume THEN [ts EXCEPT !["volume"] = now]
    ELSE IF sig.price THEN [ts EXCEPT !["price"] = now]
    ELSE ts

\* last_alert_ts is set only for the trigger that is sent
UpdateAlertTs(ts, sig, now) ==
    IF sig.merged THEN [ts EXCEPT !["merged"] = now]
    ELSE IF sig.volume THEN [ts EXCEPT !["volume"] = now]
    ELSE IF sig.price THEN [ts EXCEPT !["price"] = now]
    ELSE ts

\* the window is at capacity and every value in it equals v
FlatFull(vals, v, cap) ==
    Len(vals) = cap /\ \A i \in 1..Len(vals) : vals[i] = v

\* the locals of a call that evaluates nothing
NoEval(op) ==
    [op |-> op, rawVol |-> FALSE, rawPrice |-> FALSE,
     supVol |-> FALSE, supPrice |-> FALSE, nVol |-> 0, nPrice |-> 0,
     flatVol |-> FALSE]

\* float(kline["c"]) or float(kline["v"]) raises: the call of check does not
\* return.  The bucket has been recorded by then.
CheckRaises(kl) ==
    /\ kl.x
    /\ ~IsDuplicate(minute_bucket(kl), last_minute_ts)
    /\ ~kl.num

\* AnomalyDetector.check(kline), the whole call, at clock reading `now`.
check(kl, now) ==
    IF ~kl.x
    THEN /\ signals' = AllFalse
         /\ ev' = NoEval("notfinal")
         /\ UNCHANGED <<volumes, prices, last_alert_ts, last_minute_ts>>
    ELSE IF IsDuplicate(minute_bucket(kl), last_minute_ts)
    THEN /\ signals' = AllFalse
         /\ ev' = NoEval("dup")
         /\ UNCHANGED <<volumes, prices, last_alert_ts, last_minute_ts>>
    ELSE IF ~kl.num
    THEN /\ last_minute_ts' = minute_bucket(kl)
         /\ ev' = [ev EXCEPT !.op = "raised"]
         /\ UNCHANGED <<volumes, prices, last_alert_ts, signals>>
    ELSE LET rawVol == VolSignal(kl.v, volumes, s)
             rawPrice == PriceSignal(kl.c, prices, s)
             supVol == Suppressed(rawVol, now, last_alert_ts["volume"], Cooldown(s))
             supPrice == Suppressed(rawPrice, now, last_alert_ts["price"], Cooldown(s))
             res == Merge(rawVol /\ ~supVol, rawPrice /\ ~supPrice)
         IN  /\ last_minute_ts' = minute_bucket(kl)
             /\ volumes' = DequeAppend(volumes, kl.v, s.volume_window)
             /\ prices' = DequeAppend(prices, kl.c, s.price_window + 1)
             /\ last_alert_ts' = UpdateAlertTs(last_alert_ts, res, now)
             /\ signals' = res
             /\ ev' = [op |-> "accepted", rawVol |-> rawVol, rawPrice |-> rawPrice,
                       supVol |-> supVol, supPrice |-> supPrice,
                       nVol |-> Len(volumes), nPrice |-> Len(prices),
                       flatVol |-> FlatFull(volumes, kl.v, s.volume_window)]


\* ------------------------------------------------------------------- Init
\* Settings.load(): every combination of the configurations tried.
SettingsSet ==
    [volume_window : VolumeWindows,
     volume_zscore : ZScores,
     minute_volume_min : MinVolumes,
     price_window : PriceWindows,
     price_pct_change : PricePcts,
     alert_cooldown_min : CooldownMins]

\* the configurations whose z-score threshold is the largest one tried
PlainSettings == {st \in SettingsSet : \A z \in ZScores : st.volume_zscore >= z}

\* a turn of the while loop that has neither left the message loop nor
\* fetched
NewCycle == [exit |-> "none", fetches |-> 0]

\* AnomalyDetector.__init__, and ws_loop before its first connection attempt.
\* The clock starts one cooldown after its origin, so that the default
\* last_alert_ts of 0.0 suppresses nothing (as with the epoch clock).
InitWith(S) ==
    /\ s \in S
    /\ volumes = <<>>
    /\ prices = <<>>
    /\ last_alert_ts = [kd \in Kinds |-> 0]
    /\ last_minute_ts = NoBucket
    /\ signals = AllFalse
    /\ ev = NoEval("none")
    /\ clock = Cooldown(s)
    /\ pc = "connecting"
    /\ backoff = BackoffFloor
    /\ fails = 0
    /\ connected = FALSE
    /\ pushed = [b \in 1..MaxBucket |-> 0]
    /\ ordered = TRUE
    /\ cycle = NewCycle

Init == InitWith(PlainSettings)

\* time passes: time.time() grows by 60 s
Tick ==
    /\ clock + 60 <= Cooldown(s) + 60 * MaxTicks
    /\ clock' = clock + 60
    /\ UNCHANGED <<s, dvars, lvars, hvars, cycle>>

\* ------------------------------------------------- the detector on its own
\* A caller hands a kline to AnomalyDetector.check (and catches what it raises).
Check(kl) ==
    /\ check(kl, clock)
    /\ UNCHANGED <<s, clock, lvars, hvars, cycle>>

\* The candles alternate between two minute buckets, in any order.
NextDetector ==
    \/ \E kl \in {fk \in FinalKlines \cup BadKlines : minute_bucket(fk) <= 2} : Check(kl)
    \/ Tick

SpecDetector == Init /\ [][NextDetector]_vars

\* The detector under every z-score threshold tried, on candles of one close.
NextThreshold ==
    \/ \E kl \in {fk \in FinalKlines : fk.c = 10 /\ minute_bucket(fk) <= 2} : Check(kl)
    \/ Tick

SpecThreshold == InitWith(SettingsSet) /\ [][NextThreshold]_vars

\* A configuration whose volume warm-up is int(volume_window * 0.3) = 6
\* samples and whose price warm-up is 2 samples.
WarmupSettings ==
    [volume_window |-> 20, volume_zscore |-> 0, minute_volume_min |-> 0,
     price_window |-> 2, price_pct_change |-> 2, alert_cooldown_min |-> 1]

\* The feed carries at most one volume spike per window length.
CheckSparse(kl) ==
    /\ kl.v = 1 \/ \A i \in 1..Len(volumes) : volumes[i] = 1
    /\ Check(kl)

NextWarmup ==
    \E kl \in {fk \in FinalKlines : minute_bucket(fk) <= 2} : CheckSparse(kl)

SpecWarmup == InitWith({WarmupSettings}) /\ [][NextWarmup]_vars

\* The default configuration of Settings.load, and 32 candles of consecutive
\* minute buckets: thirty of volume 100 and close 50, then a volume of 500,
\* then a close of 52.  The clock advances between candles, at most once per
\* candle of the run.
ScenarioSettings ==
    [volume_window |-> 30, volume_zscore |-> 3, minute_volume_min |-> 0,
     price_window |-> 10, price_pct_change |-> 2, alert_cooldown_min |-> 10]

ScenarioKline(i) ==
    Kline(TRUE, i, IF i = 32 THEN 52 ELSE 50, IF i = 31 THEN 500 ELSE 100, TRUE)

ScenarioCandle ==
    LET i == IF last_minute_ts = NoBucket THEN 1 ELSE last_minute_ts + 1
    IN  /\ i <= 32
        /\ Check(ScenarioKline(i))

ScenarioTick ==
    /\ clock + 60 <= Cooldown(s) + 60 * 32
    /\ clock' = clock + 60
    /\ UNCHANGED <<s, dvars, lvars, hvars, cycle>>

NextScenario == ScenarioCandle \/ ScenarioTick

SpecScenario == InitWith({ScenarioSettings}) /\ [][NextScenario]_vars

\* A configuration with a minimum-volume floor between the two volumes fed,
\* a z-score threshold of 0 and a cooldown of two clock steps.
FloorSettings ==
    [volume_window |-> 5, volume_zscore |-> 0, minute_volume_min |-> 5,
     price_window |-> 1, price_pct_change |-> 2, alert_cooldown_min |-> 2]

NextFloor ==
    \/ \E kl \in {fk \in FinalKlines : minute_bucket(fk) <= 2} : Check(kl)
    \/ Tick

SpecFloor == InitWith({FloorSettings}) /\ [][NextFloor]_vars

\* The detector fed final candles in any order, well-formed or not, with the
\* history of the buckets it evaluated (a candle is evaluated when check pushes
\* it) and of whether the buckets handed to it ever decreased.
CheckLogged(kl) ==
    /\ pushed[minute_bucket(kl)] < MaxPushes
    /\ check(kl, clock)
    /\ pushed' = IF ev'.op = "accepted"
                 THEN [pushed EXCEPT ![minute_bucket(kl)] = @ + 1]
                 ELSE pushed
    /\ ordered' = (ordered /\ minute_bucket(kl) >= last_minute_ts)
    /\ UNCHANGED <<s, clock, lvars, cycle>>

NextDedup ==
    \E kl \in {fk \in FinalKlines : fk.c = 10} \cup BadKlines : CheckLogged(kl)

SpecDedup == Init /\ [][NextDedup]_vars

\* ---------------------------------------------------------------- ws_loop
\* Mutant of the alert test: a price signal alone is not an alert.
AnySignalVolume(sig) == sig.volume \/ sig.merged

\* any(signals.values())
AnySignal(sig) == sig.volume \/ sig.price \/ sig.merged

\* Mutant of the backoff step: no ceiling.
NextBackoffNoCap(b) == b * 2

\* min(backoff * 2, 60.0)
NextBackoff(b) == Min(b * 2, BackoffCeil)

\* the candles the feed and the fallback deliver in the loop
LoopKlines == {fk \in FinalKlines : fk.v = 1}

\* ws_connect succeeds: backoff = 1.0, and the loop reads messages
ConnectOk ==
    /\ pc = "connecting"
    /\ backoff' = BackoffFloor
    /\ pc' = "streaming"
    /\ fails' = 0
    /\ connected' = TRUE
    /\ UNCHANGED <<s, dvars, clock, hvars, cycle>>

\* ws_connect raises: the except branch is entered
ConnectFail ==
    /\ pc = "connecting"
    /\ fails < MaxFails
    /\ fails' = fails + 1
    /\ pc' = "fallback"
    /\ UNCHANGED <<s, dvars, clock, backoff, connected, hvars, cycle>>

\* a TEXT message with a final candle: detector.check(k), then the alert is
\* sent if any signal is set.  A c or v that is not a number makes check raise
\* into the except branch.
StreamCandle(kl) ==
    /\ pc = "streaming"
    /\ check(kl, clock)
    /\ pc' = IF CheckRaises(kl) THEN "fallback"
             ELSE IF AnySignal(signals') THEN "notify_ws"
             ELSE "streaming"
    /\ cycle' = IF CheckRaises(kl) THEN [cycle EXCEPT !.exit = "raise"] ELSE cycle
    /\ UNCHANGED <<s, clock, backoff, fails, connected, hvars>>

\* a TEXT message whose candle is not closed, or that carries no "k":
\* nothing is evaluated
StreamOpen(kl) ==
    /\ pc = "streaming"
    /\ ~kl.x
    /\ UNCHANGED vars

\* a TEXT message that json.loads cannot decode: the exception leaves the
\* message loop and the connection, into the except branch
StreamDecodeError ==
    /\ pc = "streaming"
    /\ pc' = "fallback"
    /\ cycle' = [cycle EXCEPT !.exit = "raise"]
    /\ UNCHANGED <<s, dvars, clock, backoff, fails, connected, hvars>>

\* Mutant of the break: the except branch is entered as for an exception.
StreamCloseFallback ==
    /\ pc = "streaming"
    /\ pc' = "fallback"
    /\ cycle' = [cycle EXCEPT !.exit = "close"]
    /\ UNCHANGED <<s, dvars, clock, backoff, fails, connected, hvars>>

\* an ERROR, CLOSE or CLOSED message, or the end of the stream: break, and
\* the loop goes to the backoff sleep without the except branch
StreamClose ==
    /\ pc = "streaming"
    /\ pc' = "sleep"
    /\ cycle' = [cycle EXCEPT !.exit = "close"]
    /\ UNCHANGED <<s, dvars, clock, backoff, fails, connected, hvars>>

\* reading the stream raises
StreamRaise ==
    /\ pc = "streaming"
    /\ pc' = "fallback"
    /\ cycle' = [cycle EXCEPT !.exit = "raise"]
    /\ UNCHANGED <<s, dvars, clock, backoff, fails, connected, hvars>>

\* await send_telegram(...) at line 215 returns
NotifyWsOk ==
    /\ pc = "notify_ws"
    /\ pc' = "streaming"
    /\ UNCHANGED <<s, dvars, clock, backoff, fails, connected, hvars, cycle>>

\* format_alert_html or await send_telegram(...) at lines 214-215 raises:
\* into the except branch
NotifyWsFail ==
    /\ pc = "notify_ws"
    /\ pc' = "fallback"
    /\ cycle' = [cycle EXCEPT !.exit = "raise"]
    /\ UNCHANGED <<s, dvars, clock, backoff, fails, connected, hvars>>

\* Mutant of the fallback fetch: its exception is not caught and leaves
\* ws_loop.
FallbackNoneRaises ==
    /\ pc = "fallback"
    /\ pc' = "terminated"
    /\ cycle' = [cycle EXCEPT !.fetches = @ + 1]
    /\ UNCHANGED <<s, dvars, clock, backoff, fails, connected, hvars>>

\* fetch_latest_rest returns None (status not 200, no data, or an exception)
FallbackNone ==
    /\ pc = "fallback"
    /\ pc' = "sleep"
    /\ cycle' = [cycle EXCEPT !.fetches = @ + 1]
    /\ UNCHANGED <<s, dvars, clock, backoff, fails, connected, hvars>>

\* fetch_latest_rest returns a candle (x = True): detector.check(k) inside the
\* except branch, where an exception is not caught any more
FallbackCandle(kl) ==
    /\ pc = "fallback"
    /\ check(kl, clock)
    /\ pc' = IF CheckRaises(kl) THEN "terminated"
             ELSE IF AnySignal(signals') THEN "notify_rest"
             ELSE "sleep"
    /\ cycle' = [cycle EXCEPT !.fetches = @ + 1]
    /\ UNCHANGED <<s, clock, backoff, fails, connected, hvars>>

\* await send_telegram(...) at line 228 returns
NotifyRestOk ==
    /\ pc = "notify_rest"
    /\ pc' = "sleep"
    /\ UNCHANGED <<s, dvars, clock, backoff, fails, connected, hvars, cycle>>

\* format_alert_html or await send_telegram(...) at lines 227-228 raises
\* inside the except branch: the exception leaves ws_loop
NotifyRestFail ==
    /\ pc = "notify_rest"
    /\ pc' = "terminated"
    /\ UNCHANGED <<s, dvars, clock, backoff, fails, connected, hvars, cycle>>

\* await asyncio.sleep(backoff); backoff = min(backoff * 2, 60.0)
Sleep ==
    /\ pc = "sleep"
    /\ backoff' = NextBackoff(backoff)
    /\ pc' = "connecting"
    /\ cycle' = NewCycle
    /\ UNCHANGED <<s, dvars, clock, fails, connected, hvars>>

Next ==
    \/ ConnectOk
    \/ ConnectFail
    \/ \E kl \in LoopKlines \cup BadKlines : StreamCandle(kl)
    \/ \E kl \in OpenKlines : StreamOpen(kl)
    \/ StreamDecodeError
    \/ StreamClose
    \/ StreamRaise
    \/ NotifyWsOk
    \/ NotifyWsFail
    \/ FallbackNone
    \/ \E kl \in LoopKlines \cup BadKlines : FallbackCandle(kl)
    \/ NotifyRestOk
    \/ NotifyRestFail
    \/ Sleep
    \/ Tick

Spec == Init /\ [][Next]_vars

\* ws_loop under fairness: await asyncio.sleep(backoff) returns (the backoff
\* is never more than 60 s).
SpecLive == Init /\ [][Next]_vars /\ WF_vars(Sleep)

\* ----------------------------------------------------------------- claims
\* C1 (as claimed): a check that reports kind kd, for every kind including
\* merged, comes at least one cooldown after the previous report of kd.
C1_CooldownEveryKind ==
    [][\A kl \in FinalKlines : \A kd \in Kinds :
          (Check(kl) /\ signals'[kd]) =>
              clock - last_alert_ts[kd] >= Cooldown(s)]_vars

\* C2 (as claimed): whatever the order of the candles, no minute bucket is
\* evaluated (pushed into the windows) more than once.
C2_OncePerBucketAnyOrder == \A b \in 1..MaxBucket : pushed[b] <= 1

\* C2 (amended): as long as the buckets of the final candles handed to check
\* never decrease, no minute bucket is evaluated more than once.
C2_OncePerBucketOrdered ==
    ordered => \A b \in 1..MaxBucket : pushed[b] <= 1

\* C2 witness: a candle of an already evaluated bucket was fed again, in order,
\* and ignored.
C2_Witness ==
    /\ ordered
    /\ ev.op = "dup"
    /\ pushed[last_minute_ts] = 1

\* C3: a final candle of the bucket recorded last returns all-false and leaves
\* both windows, the cooldown timestamps and the recorded bucket unchanged.
C3_DuplicateIsNoOp ==
    [][\A kl \in FinalKlines \cup BadKlines :
          (Check(kl) /\ minute_bucket(kl) = last_minute_ts) =>
              /\ signals' = AllFalse
              /\ UNCHANGED <<volumes, prices, last_alert_ts, last_minute_ts>>]_vars

\* C3 witness: a duplicate was fed to a detector that holds samples.
C3_Witness ==
    /\ ev.op = "dup"
    /\ Len(volumes) > 0
    /\ signals = AllFalse

\* C4: at most one of volume, price, merged is true in a returned result.
C4_AtMostOneFlag ==
    /\ ~(signals.volume /\ signals.price)
    /\ ~(signals.volume /\ signals.merged)
    /\ ~(signals.price /\ signals.merged)

\* C4 witness: both raw signals were true, the volume one was suppressed, and
\* the price flag alone was returned.
C4_Witness ==
    /\ ev.op = "accepted"
    /\ ev.rawVol /\ ev.rawPrice
    /\ ev.supVol
    /\ signals.price

\* C5 (as claimed): a message that cannot be decoded leaves the loop in
\* Streaming.
C5_DecodeErrorSwallowed ==
    [][StreamDecodeError => pc' = "streaming"]_vars

\* C6 (as claimed): a final message with an unparsable field leaves the
\* detector's bucket, windows and cooldown timestamps as they were.
C6_MalformedKeepsDetector ==
    [][\A kl \in BadKlines :
          StreamCandle(kl) =>
              UNCHANGED <<last_minute_ts, volumes, prices, last_alert_ts>>]_vars

\* C7 (as claimed): a failing notification, while Streaming or while handling
\* the fallback candle, never stops the loop.
C7_NotifyFailureNotTerminal ==
    [][(NotifyWsFail \/ NotifyRestFail) => pc' # "terminated"]_vars

\* C8 (as claimed): the wait after the k-th consecutive failed connection
\* attempt is min(2^(k-1), 60), and the wait after a successful connection is 1.
C8_WaitByFailures ==
    pc = "sleep" =>
        backoff = IF fails = 0 THEN 1 ELSE Min(2 ^ (fails - 1), 60)

\* C8 (amended): the wait after the k-th consecutive failed attempt is
\* min(2^(k-1), 60) while no connection has succeeded yet and min(2^k, 60)
\* once one has (the 1 s wait that follows that connection comes first); it
\* is never more than 60, and the wait after a successful connection is 1.
C8_WaitByFailuresSinceConnect ==
    pc = "sleep" =>
        /\ backoff <= 60
        /\ backoff = IF fails = 0 THEN 1
                     ELSE IF connected THEN Min(2 ^ fails, 60)
                     ELSE Min(2 ^ (fails - 1), 60)

\* C8 witness: the third failure in a row after a connection that had
\* succeeded is about to wait 8 s.
C8_Witness ==
    /\ pc = "sleep"
    /\ connected
    /\ fails = 3
    /\ backoff = 8

\* C9: both raw signals true and neither suppressed gives exactly
\* {volume: false, price: false, merged: true}, and merged is true only then.
C9_MergedExactly ==
    LET both == ev.rawVol /\ ev.rawPrice /\ ~ev.supVol /\ ~ev.supPrice
    IN  /\ (ev.op = "accepted" /\ both) =>
               signals = [volume |-> FALSE, price |-> FALSE, merged |-> TRUE]
        /\ signals.merged => both

\* C9 witness: an evaluation with both raw signals true and none suppressed.
C9_Witness ==
    /\ ev.op = "accepted"
    /\ ev.rawVol /\ ev.rawPrice
    /\ ~ev.supVol /\ ~ev.supPrice
    /\ signals.merged

\* C10 (as claimed): a full window of equal values v and a candle of volume v
\* give volume = false under every threshold.
C10_FlatWindowAnyThreshold ==
    (ev.op = "accepted" /\ ev.flatVol) => ~signals.volume

\* C10 (amended): a full window of equal values v and a candle of volume v
\* give volume = false under every positive threshold.
C10_FlatWindowPositiveThreshold ==
    (ev.op = "accepted" /\ ev.flatVol /\ s.volume_zscore > 0) => ~signals.volume

\* C10 witness: such a candle was evaluated under a positive threshold.
C10_Witness ==
    /\ ev.op = "accepted"
    /\ ev.flatVol
    /\ s.volume_zscore > 0
    /\ ~signals.volume

\* C11 (as claimed): the volume window never holds more than volume_window
\* values and the price window never holds more than price_window values.
C11_WindowsWithinConfigured ==
    /\ Len(volumes) <= s.volume_window
    /\ Len(prices) <= s.price_window

\* C11 (amended): the volume window never holds more than volume_window
\* values and the price window never holds more than price_window + 1 values
\* (the baseline and the price_window closes after it).
C11_WindowsWithinMaxlen ==
    /\ Len(volumes) <= s.volume_window
    /\ Len(prices) <= s.price_window + 1

\* C11 witness: a candle was pushed into two windows that were already full.
C11_Witness ==
    /\ ev.op = "accepted"
    /\ ev.nVol = s.volume_window
    /\ ev.nPrice = s.price_window + 1
    /\ Len(volumes) = s.volume_window
    /\ Len(prices) = s.price_window + 1

\* C12: a check that finds fewer than max(5, floor(0.3 * volume_window))
\* samples in the volume window returns volume = false and merged = false.
C12_VolumeWarmup ==
    LET need == Max(5, (3 * s.volume_window) \div 10)
    IN  (ev.op = "accepted" /\ ev.nVol < need) =>
            (~signals.volume /\ ~signals.merged)

\* C12 witness: a spike arrived on five samples, one short of the six that
\* a window of 20 asks for, and no volume signal was returned.
C12_Witness ==
    /\ ev.op = "accepted"
    /\ s.volume_window = 20
    /\ ev.nVol = 5
    /\ volumes = <<1, 1, 1, 1, 1, 9>>
    /\ ~signals.volume /\ ~signals.merged

\* C13: a check that finds fewer than price_window samples in the price window
\* returns price = false and merged = false.
C13_PriceWarmup ==
    (ev.op = "accepted" /\ ev.nPrice < s.price_window) =>
        (~signals.price /\ ~signals.merged)

\* C13 witness: a close 10 % above the only close in a price window that
\* asks for two, and no price signal was returned.
C13_Witness ==
    /\ ev.op = "accepted"
    /\ s.price_window = 2
    /\ ev.nPrice = 1
    /\ prices = <<10, 11>>
    /\ ~signals.price /\ ~signals.merged

\* C14: under the default configuration, thirty candles of volume 100 and
\* close 50 all return all-false, candle 31 (volume 500, close 50) returns
\* volume = false, and candle 32 (volume 100, close 52) returns price = true,
\* volume = false, merged = false.
C14_Scenario ==
    ev.op = "accepted" =>
        /\ last_minute_ts \in 1..30 => signals = AllFalse
        /\ last_minute_ts = 31 => ~signals.volume
        /\ last_minute_ts = 32 =>
               signals = [volume |-> FALSE, price |-> TRUE, merged |-> FALSE]

\* C14 witness: candle 32 has been evaluated after the spike of candle 31.
C14_Witness ==
    /\ ev.op = "accepted"
    /\ last_minute_ts = 32
    /\ Len(volumes) = 30
    /\ volumes[29] = 500 /\ volumes[30] = 100
    /\ prices[Len(prices)] = 52
    /\ signals.price

\* C15 (as claimed): however the message loop was left (an exception, or an
\* ERROR, CLOSE or CLOSED message), the backoff wait is reached with exactly
\* one fallback fetch made in that turn of the loop.
C15_EveryExitFetchesOnce ==
    (pc = "sleep" /\ cycle.exit # "none") => cycle.fetches = 1

\* C15 (amended): a message loop left by an exception is followed by the
\* except branch, whose single fallback fetch comes before the backoff wait;
\* a message loop left by an ERROR, CLOSE or CLOSED message is followed by
\* the backoff wait with no fallback fetch.
C15_OnlyRaisedExitFetches ==
    /\ cycle.fetches <= 1
    /\ cycle.exit = "raise" =>
           /\ pc \in {"fallback", "notify_rest", "sleep", "terminated"}
           /\ pc = "fallback" <=> cycle.fetches = 0
    /\ cycle.exit = "close" => (pc = "sleep" /\ cycle.fetches = 0)

\* C15 witness: the message loop was left by an exception after a
\* connection, the one fallback fetch was made, and the loop is about to wait.
C15_Witness ==
    /\ pc = "sleep"
    /\ connected
    /\ cycle.exit = "raise"
    /\ cycle.fetches = 1

\* C16: a check changes the cooldown timestamp of a kind only when it returns
\* that kind's flag true: the reported kind is stamped with the current time,
\* every other kind keeps its timestamp, and an all-false result (a
\* suppressed trigger included) keeps all three.
C16_StampOnlyReportedKind ==
    [][\A kl \in FinalKlines :
          Check(kl) =>
              \A kd \in Kinds :
                  last_alert_ts'[kd] =
                      IF signals'[kd] THEN clock ELSE last_alert_ts[kd]]_vars

\* C16 witness: a volume trigger was suppressed one clock step after the
\* alert that stamped it, and the stamp is still the earlier time.
C16_Witness ==
    /\ ev.op = "accepted"
    /\ ev.rawVol /\ ev.supVol
    /\ signals = AllFalse
    /\ last_alert_ts["volume"] = clock - 60

\* C17 (as claimed): whenever check evaluates the price signal, the baseline
\* it uses is the close accepted exactly price_window accepted candles before
\* the current one.
C17_BaselineIsLookback ==
    [][\A kl \in FinalKlines :
          (/\ Check(kl)
           /\ minute_bucket(kl) # last_minute_ts
           /\ Len(prices) >= s.price_window) =>
              Baseline(prices, kl.c) = prices[Len(prices) - s.price_window + 1]]_vars

\* C18: every accepted candle (final, of a bucket other than the one recorded
\* last) appends its volume to the volume window and its close to the price
\* window exactly once, whatever the result; below a minimum-volume floor > 0
\* the volume and merged flags are false and the volume is still appended.
C18_AlwaysPushedOnce ==
    [][\A kl \in FinalKlines :
          (Check(kl) /\ minute_bucket(kl) # last_minute_ts) =>
              LET vs == Append(volumes, kl.v)
                  ps == Append(prices, kl.c)
                  vcap == s.volume_window
                  pcap == s.price_window + 1
              IN  /\ volumes' = IF Len(vs) > vcap
                                THEN SubSeq(vs, Len(vs) - vcap + 1, Len(vs))
                                ELSE vs
                  /\ prices' = IF Len(ps) > pcap
                               THEN SubSeq(ps, Len(ps) - pcap + 1, Len(ps))
                               ELSE ps
                  /\ (s.minute_volume_min > 0 /\ kl.v < s.minute_volume_min) =>
                         (~signals'.volume /\ ~signals'.merged)]_vars

\* C18 witness: a candle below the floor met a full window of its own volume
\* (z = 0, which reaches the threshold 0), returned no volume signal, and
\* its volume is the newest of the window.
C18_Witness ==
    /\ ev.op = "accepted"
    /\ s.minute_volume_min > 0
    /\ ev.flatVol
    /\ volumes[Len(volumes)] < s.minute_volume_min
    /\ ~signals.volume /\ ~signals.merged

\* C19: candles are handled one at a time: a check that returns is followed
\* by the notification exactly when a flag of its result is true, a
\* notification starts only from such a check, and while it is pending no
\* message is read and no candle is evaluated.
C19_OneCandleAtATime ==
    [][LET Notifying == {"notify_ws", "notify_rest"}
       IN  /\ \A kl \in LoopKlines :
                  (StreamCandle(kl) \/ FallbackCandle(kl)) =>
                      (pc' \in Notifying <=>
                          (signals'.volume \/ signals'.price \/ signals'.merged))
           /\ (pc' \in Notifying /\ pc \notin Notifying) =>
                  \E kl \in LoopKlines : StreamCandle(kl) \/ FallbackCandle(kl)
           /\ pc \in Notifying => UNCHANGED dvars]_vars

\* C19 witness: a candle of the stream returned a price signal and its
\* notification is pending.
C19_Witness ==
    /\ pc = "notify_ws"
    /\ ev.op = "accepted"
    /\ signals.price

\* C20: a failed connection or a raising stream enters the fallback; a
\* fallback fetch that returns nothing evaluates no candle and goes to the
\* backoff wait; and the wait always leads back to a connection attempt.
C20_FailureLeadsToReconnect ==
    /\ [][(ConnectFail \/ StreamRaise) => pc' = "fallback"]_vars
    /\ [][FallbackNone => (pc' = "sleep" /\ UNCHANGED dvars)]_vars
    /\ (pc = "sleep") ~> (pc = "connecting")

\* C20 witness: the first connection attempts failed, the fallback fetch
\* returned nothing, no candle has been evaluated, and the loop is waiting.
C20_Witness ==
    /\ pc = "sleep"
    /\ fails >= 2
    /\ ~connected
    /\ cycle.fetches = 1
    /\ ev.op = "none"

=============================================================================
